---- MODULE Spec2Model ----
(***************************************************************************)
(* Model of the HPO MCP server's aggregation handlers                      *)
(* (src/src/handlers/hpo-handlers.ts) over the API client                  *)
(* (src/src/utils/api-client.ts).                                          *)
(*                                                                         *)
(* One tool invocation runs at a time.  An accessor call issues one HTTP   *)
(* request (recorded in calls) and later completes with an ApiResponse     *)
(* value (recorded in resp); the remote service answers each request with  *)
(* any response of a bounded set.  Strings on which the code computes      *)
(* (term ids) are sequences of one-character strings; a term reference     *)
(* {id, name} is represented by its id, the name travelling with it.       *)
(* prev is not state of the program: it records an earlier invocation, for *)
(* the comparison of an invocation with its repetition.                    *)
(***************************************************************************)
EXTENDS Integers, Sequences, FiniteSets, TLC

VARIABLES op, args, pc, calls, resp, result, prev

vars == <<op, args, pc, calls, resp, result, prev>>

(***************************************************************************)
(* Bounds of the model.                                                    *)
(***************************************************************************)
NumIds == 4
MaxAnc == 3
LongLen == 11
MaxList == 2
MaxBatch == 3
MaxDigits == 8

(***************************************************************************)
(* Program constants.                                                      *)
(***************************************************************************)
PadWidth == 7
PathWindow == 200
CompareWindow == 200
StatsClosureWindow == 1000
StatsHopWindow == 100
DisplayCap == 10
BatchCap == 20
AncestorsDefaultMax == 50
HopDefaultMax == 20
DescendantsDefaultMax == 50
DescendantsCap == 100
DefaultOffset == 0
AllTermsDefaultMax == 20
AllTermsCap == 100
AncestorsAdvertisedMax == 200
HopAdvertisedMax == 100

(***************************************************************************)
(* Sequence helpers.                                                       *)
(***************************************************************************)
Range(s) == {s[i] : i \in 1..Len(s)}

Reverse(s) == [i \in 1..Len(s) |-> s[Len(s) + 1 - i]]

Take(s, n) == SubSeq(s, 1, IF Len(s) < n THEN Len(s) ELSE n)

DistinctSeqs(S, n) ==
  {s \in UNION {[1..m -> S] : m \in 0..n} :
     \A i, j \in 1..Len(s) : i # j => s[i] # s[j]}

(***************************************************************************)
(* Strings as character sequences.                                         *)
(***************************************************************************)
Digit == {"0", "1", "2", "3", "4", "5", "6", "7", "8", "9"}

DigitChar(d) == <<"0", "1", "2", "3", "4", "5", "6", "7", "8", "9">>[d + 1]

RECURSIVE DigitsOf(_)
DigitsOf(n) == IF n < 10 THEN <<DigitChar(n)>>
               ELSE DigitsOf(n \div 10) \o <<DigitChar(n % 10)>>

Zeros(n) == [i \in 1..n |-> "0"]

HPPrefix == <<"H", "P", ":">>

StartsWith(s, p) == Len(s) >= Len(p) /\ SubSeq(s, 1, Len(p)) = p

AllDigits(s) == Len(s) >= 1 /\ \A i \in 1..Len(s) : s[i] \in Digit

PadStart(s, w) == IF Len(s) >= w THEN s ELSE Zeros(w - Len(s)) \o s

formatHPOIdUnpadded(id) ==
  IF StartsWith(id, HPPrefix) THEN id
  ELSE IF AllDigits(id) THEN HPPrefix \o id
  ELSE id

formatHPOIdAlwaysPrefixed(id) ==
  IF StartsWith(id, HPPrefix) /\ Len(id) = Len(HPPrefix) + PadWidth THEN id
  ELSE HPPrefix \o PadStart(id, PadWidth)

(* HPOApiClient.formatHPOId *)
formatHPOId(id) ==
  IF StartsWith(id, HPPrefix) THEN id
  ELSE IF AllDigits(id) THEN HPPrefix \o PadStart(id, PadWidth)
  ELSE id

(* HPOApiClient.isValidHPOId *)
isValidHPOId(id) ==
  \/ Len(id) = 3 + PadWidth /\ StartsWith(id, HPPrefix)
       /\ AllDigits(SubSeq(id, 4, Len(id)))
  \/ Len(id) = PadWidth /\ AllDigits(id)

(***************************************************************************)
(* The ids of the remote hierarchy and the strings a caller supplies.      *)
(***************************************************************************)
Canon(k) == HPPrefix \o PadStart(DigitsOf(k), PadWidth)

ShortForm(k) == DigitsOf(k)

PaddedForm(k) == PadStart(DigitsOf(k), PadWidth)

TermIds == {Canon(k) : k \in 1..NumIds}

LongUp == [i \in 1..LongLen |-> Canon(NumIds + i)]

LongDown == Reverse(LongUp)

(* argument values: a string, a non-string (number) or absent *)
StrArg(s) == [type |-> "string", val |-> s]

NumArg == [type |-> "number", val |-> <<>>]

Undefined == [type |-> "undefined", val |-> <<>>]

IdStrings == {Canon(1), Canon(2), ShortForm(1), PaddedForm(2), <<"x">>}

IdArgs == {StrArg(s) : s \in IdStrings} \cup {StrArg(<<>>), NumArg, Undefined}

(* !args.id || typeof args.id !== 'string' *)
BadString(a) == a.type # "string" \/ a.val = <<>>

(***************************************************************************)
(* ApiResponse values.  error = "" stands for an absent error field.       *)
(* more is not part of the response: it records whether the source holds   *)
(* more entries than the window it returned.                               *)
(***************************************************************************)
NoError == ""

ErrorMsgs == {"E1", "E2"}

ErrResp(e) == [error |-> e, hasData |-> FALSE, data |-> <<>>, more |-> FALSE]

OkTerm(id) == [error |-> NoError, hasData |-> TRUE, data |-> <<id>>, more |-> FALSE]

OkNoData == [error |-> NoError, hasData |-> FALSE, data |-> <<>>, more |-> FALSE]

OkList(l, m) == [error |-> NoError, hasData |-> TRUE, data |-> l, more |-> m]

Pending == [error |-> "pending", hasData |-> FALSE, data |-> <<>>, more |-> FALSE]

HasErrorNever(r) == FALSE

(* if (result.error) *)
HasError(r) == r.error # NoError

(* result.data || [] *)
DataOrEmpty(r) == IF r.hasData THEN r.data ELSE <<>>

(* the answers the remote service can give to a getTerm request *)
TermResponses(fid) == {ErrResp(e) : e \in ErrorMsgs} \cup {OkTerm(fid), OkNoData}

ShortClosures == DistinctSeqs(TermIds, MaxAnc)

(* the lists answered to the fetches of getHPOTermStats: of every length   *)
(* up to MaxList, over terms other than the ones a caller names            *)
SmallLists == {[i \in 1..n |-> Canon(NumIds + i)] : n \in 0..MaxList}

(* the answers the remote service can give to a hierarchy request for the  *)
(* term fid: a failure, or a list of distinct terms other than fid (the    *)
(* hierarchy is acyclic)                                                   *)
ListResponses(o, fid) ==
  {ErrResp(e) : e \in ErrorMsgs} \cup
  CASE o = "path" ->
         {OkList(l, m) : l \in {c \in ShortClosures : fid \notin Range(c)}, m \in BOOLEAN}
    [] o = "compare" ->
         {OkList(l, FALSE) : l \in {c \in ShortClosures : fid \notin Range(c)} \cup {LongUp, LongDown}}
    [] OTHER ->
         {OkList(l, FALSE) : l \in {c \in SmallLists : fid \notin Range(c)}}

(***************************************************************************)
(* Accessor calls.  Each call formats the id and issues one request.       *)
(***************************************************************************)
(* HPOApiClient.getTerm *)
getTerm(id) == [fn |-> "getTerm", id |-> id, fid |-> formatHPOId(id), max |-> 0, offset |-> 0]

(* HPOApiClient.getAncestors / getParents / getChildren / getDescendants *)
getHierarchy(fn, id, max, offset) ==
  [fn |-> fn, id |-> id, fid |-> formatHPOId(id), max |-> max, offset |-> offset]

(* HPOApiClient.getAllTerms: a request that names no term *)
getAllTerms(max, offset) ==
  [fn |-> "getAllTerms", id |-> <<>>, fid |-> <<>>, max |-> max, offset |-> offset]

(* HP:\d{7}, the only keys under which the remote service holds terms *)
Canonical(id) ==
  /\ Len(id) = Len(HPPrefix) + PadWidth
  /\ StartsWith(id, HPPrefix)
  /\ AllDigits(SubSeq(id, Len(HPPrefix) + 1, Len(id)))

(* the answers the remote service can give to the request of call c: any   *)
(* key that is not canonical is refused                                    *)
Responses(o, c) ==
  IF c.fn = "getAllTerms" THEN ListResponses(o, c.fid)
  ELSE IF ~Canonical(c.fid) THEN {ErrResp(e) : e \in ErrorMsgs}
  ELSE IF c.fn = "getTerm" THEN TermResponses(c.fid)
  ELSE ListResponses(o, c.fid)

AllAnsweredAny == \E i \in 1..Len(calls) : resp[i] # Pending

(* await of a call, or of Promise.all over the calls issued together *)
AllAnswered == \A i \in 1..Len(calls) : resp[i] # Pending

EmptyResult == [kind |-> "none"]

(* no earlier invocation is recorded *)
NoPrev == [kind |-> "none"]

(* the messages of the errors the handlers throw, word by word *)
IdRequiredMsg ==
  <<"HPO", "ID", "parameter", "is", "required", "and", "must", "be", "a", "string">>

TermsRequiredMsg ==
  <<"Both", "term1", "and", "term2", "parameters", "are", "required", "and", "must",
    "be", "strings">>

IdsRequiredMsg ==
  <<"IDs", "parameter", "is", "required", "and", "must", "be", "an", "array", "of",
    "strings">>

(* errorMessage.includes(word) *)
Includes(msg, word) == \E i \in 1..Len(msg) : msg[i] = word

McpError(code, msg) == [kind |-> "McpError", code |-> code, message |-> msg]

DispatchError(msg) == [kind |-> "dispatchError", isError |-> TRUE, message |-> msg]

ThrownAsErrorResult(msg) == DispatchError(msg)

(* a handler's throw new Error(msg), as the catch of the dispatcher         *)
(* surfaces it                                                              *)
Thrown(msg) ==
  IF Includes(msg, "required") THEN McpError("InvalidParams", msg)
  ELSE DispatchError(msg)

(***************************************************************************)
(* getHPOTermPath                                                          *)
(***************************************************************************)
TermError(id, e) == [kind |-> "termError", isError |-> TRUE, id |-> id, error |-> e]

AncestorsError(id, e) == [kind |-> "ancestorsError", isError |-> TRUE, id |-> id, error |-> e]

NotFound(id) == [kind |-> "notFound", isError |-> FALSE, id |-> id]

PathTermsUnreversed(ancestors, term) == ancestors \o <<term>>

(* const pathTerms = [...ancestors.reverse(), { id: term.id, name: term.name }] *)
PathTerms(ancestors, term) == Reverse(ancestors) \o <<term>>

TermPathResult(id, termResult, ancestorsResult) ==
  IF ~termResult.hasData THEN NotFound(id)
  ELSE LET pathTerms == PathTerms(DataOrEmpty(ancestorsResult), termResult.data[1])
       IN [kind |-> "path", isError |-> FALSE, id |-> id,
           path |-> pathTerms, depth |-> Len(pathTerms) - 1]

PathInvoke ==
  /\ pc = "idle"
  /\ \E a \in IdArgs :
       /\ op' = "path"
       /\ args' = [id |-> a]
       /\ IF BadString(a)
          THEN /\ result' = Thrown(IdRequiredMsg)
               /\ pc' = "done"
               /\ UNCHANGED <<calls, resp>>
          ELSE /\ calls' = <<getTerm(a.val)>>
               /\ resp' = <<Pending>>
               /\ pc' = "awaitTerm"
               /\ UNCHANGED result
  /\ UNCHANGED prev

PathAfterTerm ==
  /\ op = "path" /\ pc = "awaitTerm" /\ AllAnswered
  /\ IF HasError(resp[1])
     THEN /\ result' = TermError(args.id.val, resp[1].error)
          /\ pc' = "done"
          /\ UNCHANGED <<calls, resp>>
     ELSE /\ calls' = Append(calls, getHierarchy("getAncestors", args.id.val, PathWindow, 0))
          /\ resp' = Append(resp, Pending)
          /\ pc' = "awaitAncestors"
          /\ UNCHANGED result
  /\ UNCHANGED <<op, args>>
  /\ UNCHANGED prev

PathAfterAncestorsSharedArray ==
  /\ op = "path" /\ pc = "awaitAncestors" /\ AllAnswered
  /\ result' = IF HasError(resp[2])
               THEN AncestorsError(args.id.val, resp[2].error)
               ELSE TermPathResult(args.id.val, resp[1],
                                   IF prev = [kind |-> "none"] THEN resp[2]
                                   ELSE [resp[2] EXCEPT !.data = Reverse(@)])
  /\ pc' = "done"
  /\ UNCHANGED <<op, args, calls, resp>>
  /\ UNCHANGED prev

PathAfterAncestors ==
  /\ op = "path" /\ pc = "awaitAncestors" /\ AllAnswered
  /\ result' = IF HasError(resp[2])
               THEN AncestorsError(args.id.val, resp[2].error)
               ELSE TermPathResult(args.id.val, resp[1], resp[2])
  /\ pc' = "done"
  /\ UNCHANGED <<op, args, calls, resp>>
  /\ UNCHANGED prev

(***************************************************************************)
(* compareHPOTerms                                                         *)
(***************************************************************************)
(* term1Result.error || term2Result.error *)
FirstError(r1, r2) == IF r1.error # NoError THEN r1.error ELSE r2.error

TermsError(e) == [kind |-> "termsError", isError |-> TRUE, error |-> e]

TermsNotFound(t1, t2) == [kind |-> "termsNotFound", isError |-> FALSE, term1 |-> t1, term2 |-> t2]

CommonAncestorsOfFirst(ancestors1, ancestors2) ==
  LET ancestors2Ids == Range(ancestors2)
      Has(a) == a \in ancestors2Ids
  IN SelectSeq(ancestors1, Has)

(* ancestors2.filter(a => ancestors1Ids.has(a.id)) *)
CommonAncestors(ancestors1, ancestors2) ==
  LET ancestors1Ids == Range(ancestors1)
      Has(a) == a \in ancestors1Ids
  IN SelectSeq(ancestors2, Has)

(* the if / else if chain that sets relationship *)
Relationship(term1, term2, ancestors1, ancestors2) ==
  IF \E i \in 1..Len(ancestors1) : ancestors1[i] = term2
    THEN "term1 is a descendant of term2"
  ELSE IF \E i \in 1..Len(ancestors2) : ancestors2[i] = term1
    THEN "term2 is a descendant of term1"
  ELSE IF Len(CommonAncestors(ancestors1, ancestors2)) > 0
    THEN "Related through common ancestors"
  ELSE "No direct relationship"

CompareResult(term1, term2, t1, t2, a1, a2) ==
  LET ancestors1 == DataOrEmpty(a1)
      ancestors2 == DataOrEmpty(a2)
      commonAncestors == CommonAncestors(ancestors1, ancestors2)
  IN [kind |-> "compare", isError |-> FALSE,
      term1 |-> term1, term2 |-> term2,
      name1 |-> t1.data[1], name2 |-> t2.data[1],
      relationship |-> Relationship(term1, term2, ancestors1, ancestors2),
      commonCount |-> Len(commonAncestors),
      commonShown |-> Take(commonAncestors, DisplayCap),
      commonMore |-> IF Len(commonAncestors) > DisplayCap
                     THEN Len(commonAncestors) - DisplayCap ELSE 0]

CompareInvoke ==
  /\ pc = "idle"
  /\ \E a, b \in IdArgs :
       /\ op' = "compare"
       /\ args' = [term1 |-> a, term2 |-> b]
       /\ IF BadString(a) \/ BadString(b)
          THEN /\ result' = Thrown(TermsRequiredMsg)
               /\ pc' = "done"
               /\ UNCHANGED <<calls, resp>>
          ELSE /\ calls' = <<getTerm(a.val), getTerm(b.val)>>
               /\ resp' = <<Pending, Pending>>
               /\ pc' = "awaitTerms"
               /\ UNCHANGED result
  /\ UNCHANGED prev

CompareAfterTermsEarly ==
  /\ op = "compare" /\ pc = "awaitTerms" /\ resp[1] # Pending
  /\ IF HasError(resp[1])
     THEN /\ result' = TermsError(resp[1].error)
          /\ pc' = "done"
          /\ UNCHANGED <<calls, resp>>
     ELSE IF ~resp[1].hasData
     THEN /\ result' = TermsNotFound(args.term1.val, args.term2.val)
          /\ pc' = "done"
          /\ UNCHANGED <<calls, resp>>
     ELSE /\ calls' = calls \o
                 <<getHierarchy("getAncestors", args.term1.val, CompareWindow, 0),
                   getHierarchy("getAncestors", args.term2.val, CompareWindow, 0)>>
          /\ resp' = resp \o <<Pending, Pending>>
          /\ pc' = "awaitAncestors"
          /\ UNCHANGED result
  /\ UNCHANGED <<op, args>>
  /\ UNCHANGED prev

CompareAfterTerms ==
  /\ op = "compare" /\ pc = "awaitTerms" /\ AllAnswered
  /\ IF HasError(resp[1]) \/ HasError(resp[2])
     THEN /\ result' = TermsError(FirstError(resp[1], resp[2]))
          /\ pc' = "done"
          /\ UNCHANGED <<calls, resp>>
     ELSE IF ~resp[1].hasData \/ ~resp[2].hasData
     THEN /\ result' = TermsNotFound(args.term1.val, args.term2.val)
          /\ pc' = "done"
          /\ UNCHANGED <<calls, resp>>
     ELSE /\ calls' = calls \o
                 <<getHierarchy("getAncestors", args.term1.val, CompareWindow, 0),
                   getHierarchy("getAncestors", args.term2.val, CompareWindow, 0)>>
          /\ resp' = resp \o <<Pending, Pending>>
          /\ pc' = "awaitAncestors"
          /\ UNCHANGED result
  /\ UNCHANGED <<op, args>>
  /\ UNCHANGED prev

CompareAfterAncestors ==
  /\ op = "compare" /\ pc = "awaitAncestors" /\ AllAnswered
  /\ result' = CompareResult(args.term1.val, args.term2.val,
                             resp[1], resp[2], resp[3], resp[4])
  /\ pc' = "done"
  /\ UNCHANGED <<op, args, calls, resp>>
  /\ UNCHANGED prev

(***************************************************************************)
(* getHPOTermStats.  The metadata counts of the term record (synonyms,     *)
(* xrefs, alternative ids, obsolete flag) are copied from the record and   *)
(* are not modelled.                                                       *)
(***************************************************************************)
StatsCountsDepthByParents(id, termResult, ancestorsResult, descendantsResult, parentsResult, childrenResult) ==
  [kind |-> "stats", isError |-> FALSE, id |-> id,
   name |-> IF termResult.hasData THEN termResult.data[1] ELSE <<>>,
   ancestors |-> Len(DataOrEmpty(ancestorsResult)),
   parents |-> Len(DataOrEmpty(parentsResult)),
   children |-> Len(DataOrEmpty(childrenResult)),
   descendants |-> Len(DataOrEmpty(descendantsResult)),
   depth |-> IF Len(DataOrEmpty(parentsResult)) = 0 THEN 0
             ELSE Len(DataOrEmpty(ancestorsResult)) - Len(DataOrEmpty(parentsResult)) + 1]

(* the hierarchy statistics of the output, from .data || [] of each result *)
StatsCounts(id, termResult, ancestorsResult, descendantsResult, parentsResult, childrenResult) ==
  [kind |-> "stats", isError |-> FALSE, id |-> id,
   name |-> IF termResult.hasData THEN termResult.data[1] ELSE <<>>,
   ancestors |-> Len(DataOrEmpty(ancestorsResult)),
   parents |-> Len(DataOrEmpty(parentsResult)),
   children |-> Len(DataOrEmpty(childrenResult)),
   descendants |-> Len(DataOrEmpty(descendantsResult)),
   depth |-> Len(DataOrEmpty(ancestorsResult))]

StatsResultTermOptional(id, termResult, ancestorsResult, descendantsResult, parentsResult, childrenResult) ==
  IF HasError(termResult) /\ HasError(ancestorsResult) THEN TermError(id, termResult.error)
  ELSE IF ~termResult.hasData /\ ~HasError(termResult) THEN NotFound(id)
  ELSE StatsCounts(id, termResult, ancestorsResult, descendantsResult, parentsResult, childrenResult)

StatsResultAllOrNothing(id, termResult, ancestorsResult, descendantsResult, parentsResult, childrenResult) ==
  IF HasError(termResult) THEN TermError(id, termResult.error)
  ELSE IF ~termResult.hasData THEN NotFound(id)
  ELSE IF HasError(ancestorsResult) \/ HasError(descendantsResult)
          \/ HasError(parentsResult) \/ HasError(childrenResult)
  THEN StatsCounts(id, termResult, ErrResp("E1"), ErrResp("E1"), ErrResp("E1"), ErrResp("E1"))
  ELSE StatsCounts(id, termResult, ancestorsResult, descendantsResult, parentsResult, childrenResult)

StatsResult(id, termResult, ancestorsResult, descendantsResult, parentsResult, childrenResult) ==
  IF HasError(termResult) THEN TermError(id, termResult.error)
  ELSE IF ~termResult.hasData THEN NotFound(id)
  ELSE StatsCounts(id, termResult, ancestorsResult, descendantsResult, parentsResult, childrenResult)

StatsInvoke ==
  /\ pc = "idle"
  /\ \E a \in IdArgs :
       /\ op' = "stats"
       /\ args' = [id |-> a]
       /\ IF BadString(a)
          THEN /\ result' = Thrown(IdRequiredMsg)
               /\ pc' = "done"
               /\ UNCHANGED <<calls, resp>>
          ELSE /\ calls' = <<getTerm(a.val),
                             getHierarchy("getAncestors", a.val, StatsClosureWindow, 0),
                             getHierarchy("getDescendants", a.val, StatsClosureWindow, 0),
                             getHierarchy("getParents", a.val, StatsHopWindow, 0),
                             getHierarchy("getChildren", a.val, StatsHopWindow, 0)>>
               /\ resp' = <<Pending, Pending, Pending, Pending, Pending>>
               /\ pc' = "awaitAll"
               /\ UNCHANGED result
  /\ UNCHANGED prev

StatsAfterAll ==
  /\ op = "stats" /\ pc = "awaitAll" /\ AllAnswered
  /\ result' = StatsResult(args.id.val, resp[1], resp[2], resp[3], resp[4], resp[5])
  /\ pc' = "done"
  /\ UNCHANGED <<op, args, calls, resp>>
  /\ UNCHANGED prev

(***************************************************************************)
(* batchGetHPOTerms.  args.ids is an array, whose entries need not be       *)
(* strings, or not an array.                                                *)
(***************************************************************************)
ArrayArg(items) == [type |-> "array", items |-> items]

NotArrayArgs == {[type |-> "undefined", items |-> <<>>], [type |-> "string", items |-> <<>>]}

BatchElems == {StrArg(Canon(1)), StrArg(Canon(2)), StrArg(ShortForm(1)), NumArg}

(* a list of n entries of which only the first is a string *)
LongIds(n) == [i \in 1..n |-> IF i = 1 THEN StrArg(Canon(1)) ELSE NumArg]

IdsArgs ==
  NotArrayArgs
  \cup {ArrayArg(l) : l \in UNION {[1..m -> BatchElems] : m \in 0..MaxBatch}}
  \cup {ArrayArg(LongIds(BatchCap)), ArrayArg(LongIds(BatchCap + 1))}

(* !args.ids || !Array.isArray(args.ids) *)
BadArray(a) == a.type # "array"

TooManyOffByOne(ids) == Len(ids) > BatchCap + 1

(* args.ids.length > 20 *)
TooMany(ids) == Len(ids) > BatchCap

NoIds == [kind |-> "noIds", isError |-> FALSE]

CapExceeded == [kind |-> "capExceeded", isError |-> FALSE, cap |-> BatchCap]

(* id.startsWith is not a function: formatHPOId throws inside the try of    *)
(* getTerm, which returns the message as its error without a request        *)
TypeErrorMsg == "id.startsWith is not a function"

BatchCall(a) ==
  IF a.type = "string" THEN getTerm(a.val)
  ELSE [fn |-> "getTerm", id |-> <<>>, fid |-> <<>>, max |-> 0, offset |-> 0]

BatchFirstResp(a) == IF a.type = "string" THEN Pending ELSE ErrResp(TypeErrorMsg)

RECURSIVE Dedup(_)
Dedup(s) ==
  IF s = <<>> THEN <<>>
  ELSE LET rest == Dedup(SubSeq(s, 1, Len(s) - 1))
       IN IF s[Len(s)] \in Range(rest) THEN rest ELSE Append(rest, s[Len(s)])

BatchCallsDeduplicated(ids) ==
  LET d == Dedup(ids) IN [i \in 1..Len(d) |-> BatchCall(d[i])]

(* args.ids.map(async (id) => ... this.apiClient.getTerm(id) ...) *)
BatchCalls(ids) == [i \in 1..Len(ids) |-> BatchCall(ids[i])]

(* { id, success: !result.error, data: result.data, error: result.error } *)
Outcome(id, r) ==
  [id |-> id, success |-> ~HasError(r), term |-> DataOrEmpty(r), error |-> r.error]

BatchOutcomesFailFast(ids, rs) ==
  LET bad == {j \in 1..Len(ids) : HasError(rs[j])}
      first == CHOOSE j \in bad : \A k \in bad : j <= k
  IN [i \in 1..Len(ids) |->
        IF bad # {} THEN Outcome(ids[i], rs[first]) ELSE Outcome(ids[i], rs[i])]

(* const results = await Promise.all(args.ids.map(...)) *)
BatchOutcomes(ids, rs) == [i \in 1..Len(ids) |-> Outcome(ids[i], rs[i])]

successfulNewestFirst(results) ==
  LET Ok(r) == r.success IN Reverse(SelectSeq(results, Ok))

(* results.filter(r => r.success) *)
successful(results) == LET Ok(r) == r.success IN SelectSeq(results, Ok)

(* results.filter(r => !r.success) *)
failed(results) == LET NotOk(r) == ~r.success IN SelectSeq(results, NotOk)

BatchResult(ids, rs) ==
  LET results == BatchOutcomes(ids, rs)
      s == successful(results)
      f == failed(results)
  IN [kind |-> "batch", isError |-> FALSE,
      total |-> Len(ids), retrieved |-> Len(s),
      successful |-> [i \in 1..Len(s) |-> [id |-> s[i].id, term |-> s[i].term]],
      failed |-> [i \in 1..Len(f) |-> [id |-> f[i].id, error |-> f[i].error]]]

BatchInvoke ==
  /\ pc = "idle"
  /\ \E a \in IdsArgs :
       /\ op' = "batch"
       /\ args' = [ids |-> a]
       /\ IF BadArray(a)
          THEN /\ result' = Thrown(IdsRequiredMsg)
               /\ pc' = "done"
               /\ UNCHANGED <<calls, resp>>
          ELSE IF Len(a.items) = 0
          THEN /\ result' = NoIds
               /\ pc' = "done"
               /\ UNCHANGED <<calls, resp>>
          ELSE IF TooMany(a.items)
          THEN /\ result' = CapExceeded
               /\ pc' = "done"
               /\ UNCHANGED <<calls, resp>>
          ELSE /\ calls' = BatchCalls(a.items)
               /\ resp' = [i \in 1..Len(a.items) |-> BatchFirstResp(a.items[i])]
               /\ pc' = "awaitBatch"
               /\ UNCHANGED result
  /\ UNCHANGED prev

BatchAfterAll ==
  /\ op = "batch" /\ pc = "awaitBatch" /\ AllAnswered
  /\ result' = BatchResult(args.ids.items, resp)
  /\ pc' = "done"
  /\ UNCHANGED <<op, args, calls, resp>>
  /\ UNCHANGED prev

(***************************************************************************)
(* getHPOAncestors, getHPOParents, getHPOChildren, getHPODescendants.       *)
(* args.max and args.offset are numbers, values of another type or absent.  *)
(***************************************************************************)
HopOps == {"getHPOAncestors", "getHPOParents", "getHPOChildren", "getHPODescendants"}

WinUndefined == [type |-> "undefined", num |-> 0]

WinString == [type |-> "string", num |-> 0]

WinNum(n) == [type |-> "number", num |-> n]

MaxNums == {-1, 0, 1, 100, 101, 200, 201}

OffsetNums == {-1, 0, 5}

MaxArgs == {WinUndefined, WinString} \cup {WinNum(n) : n \in MaxNums}

OffsetArgs == {WinUndefined, WinString} \cup {WinNum(n) : n \in OffsetNums}

Min(a, b) == IF a < b THEN a ELSE b

(* args.max && typeof args.max === 'number' ? args.max : def *)
NumberOr(a, def) == IF a.type = "number" /\ a.num # 0 THEN a.num ELSE def

(* the accessor each handler calls *)
HopFn(o) ==
  CASE o = "getHPOAncestors" -> "getAncestors"
    [] o = "getHPOParents" -> "getParents"
    [] o = "getHPOChildren" -> "getChildren"
    [] o = "getHPODescendants" -> "getDescendants"

(* the schema maximum of max that the tool list advertises *)
AdvertisedMax(o) ==
  IF o = "getHPOAncestors" THEN AncestorsAdvertisedMax ELSE HopAdvertisedMax

(* params.max of each handler *)
HopMax(o, a) ==
  CASE o = "getHPOAncestors" -> NumberOr(a, AncestorsDefaultMax)
    [] o = "getHPOParents" -> NumberOr(a, HopDefaultMax)
    [] o = "getHPOChildren" -> NumberOr(a, HopDefaultMax)
    [] o = "getHPODescendants" ->
         IF a.type = "number" /\ a.num # 0 THEN Min(a.num, DescendantsCap)
         ELSE DescendantsDefaultMax

(* params.offset of each handler *)
HopOffset(a) == NumberOr(a, DefaultOffset)

HopError(o, id, e) == [kind |-> "hopError", isError |-> TRUE, op |-> o, id |-> id, error |-> e]

NoneFound(o, id) == [kind |-> "noneFound", isError |-> FALSE, op |-> o, id |-> id]

(* the listing; for descendants, whether the "Use offset parameter" hint is *)
(* printed: descendants.length >= (params.max || 50)                        *)
HopList(o, id, items, max) ==
  [kind |-> "list", isError |-> FALSE, op |-> o, id |-> id, items |-> items,
   hint |-> o = "getHPODescendants"
            /\ Len(items) >= (IF max # 0 THEN max ELSE DescendantsDefaultMax)]

HopResultEmptyIsError(o, id, max, r) ==
  IF HasError(r) THEN HopError(o, id, r.error)
  ELSE IF Len(DataOrEmpty(r)) = 0 THEN HopError(o, id, NoError)
  ELSE HopList(o, id, DataOrEmpty(r), max)

(* if (result.error) ... ; if (x.length === 0) ... ; the listing *)
HopResult(o, id, max, r) ==
  IF HasError(r) THEN HopError(o, id, r.error)
  ELSE IF Len(DataOrEmpty(r)) = 0 THEN NoneFound(o, id)
  ELSE HopList(o, id, DataOrEmpty(r), max)

HopInvoke(o) ==
  /\ pc = "idle"
  /\ \E a \in IdArgs, m \in MaxArgs, f \in OffsetArgs :
       /\ op' = o
       /\ args' = [id |-> a, max |-> m, offset |-> f]
       /\ IF BadString(a)
          THEN /\ result' = Thrown(IdRequiredMsg)
               /\ pc' = "done"
               /\ UNCHANGED <<calls, resp>>
          ELSE /\ calls' = <<getHierarchy(HopFn(o), a.val, HopMax(o, m), HopOffset(f))>>
               /\ resp' = <<Pending>>
               /\ pc' = "awaitHop"
               /\ UNCHANGED result
  /\ UNCHANGED prev

getHPOAncestors == HopInvoke("getHPOAncestors")

getHPOParents == HopInvoke("getHPOParents")

getHPOChildren == HopInvoke("getHPOChildren")

getHPODescendants == HopInvoke("getHPODescendants")

HopAfter ==
  /\ op \in HopOps /\ pc = "awaitHop" /\ AllAnswered
  /\ result' = HopResult(op, args.id.val, calls[1].max, resp[1])
  /\ pc' = "done"
  /\ UNCHANGED <<op, args, calls, resp>>
  /\ UNCHANGED prev

(***************************************************************************)
(* getAllHPOTerms                                                          *)
(***************************************************************************)
(* args.max && typeof args.max === 'number' ? Math.min(args.max, 100) : 20 *)
AllTermsMax(a) ==
  IF a.type = "number" /\ a.num # 0 THEN Min(a.num, AllTermsCap) ELSE AllTermsDefaultMax

AllTermsError(e) == [kind |-> "allTermsError", isError |-> TRUE, error |-> e]

NoTerms(offset) == [kind |-> "noTerms", isError |-> FALSE, offset |-> offset]

AllTermsResult(offset, r) ==
  IF HasError(r) THEN AllTermsError(r.error)
  ELSE IF Len(DataOrEmpty(r)) = 0 THEN NoTerms(offset)
  ELSE [kind |-> "terms", isError |-> FALSE, items |-> DataOrEmpty(r),
        from |-> offset + 1]

getAllHPOTerms ==
  /\ pc = "idle"
  /\ \E m \in MaxArgs, f \in OffsetArgs :
       /\ op' = "getAllHPOTerms"
       /\ args' = [max |-> m, offset |-> f]
       /\ calls' = <<getAllTerms(AllTermsMax(m), HopOffset(f))>>
       /\ resp' = <<Pending>>
       /\ pc' = "awaitAllTerms"
       /\ UNCHANGED result
  /\ UNCHANGED prev

AllTermsAfter ==
  /\ op = "getAllHPOTerms" /\ pc = "awaitAllTerms" /\ AllAnswered
  /\ result' = AllTermsResult(calls[1].offset, resp[1])
  /\ pc' = "done"
  /\ UNCHANGED <<op, args, calls, resp>>
  /\ UNCHANGED prev

(***************************************************************************)
(* The remote service answers one outstanding request.                     *)
(***************************************************************************)
Respond ==
  /\ pc \notin {"idle", "done"}
  /\ \E i \in 1..Len(calls) :
       /\ resp[i] = Pending
       /\ \E r \in Responses(op, calls[i]) : resp' = [resp EXCEPT ![i] = r]
  /\ UNCHANGED <<op, args, pc, calls, result>>
  /\ UNCHANGED prev

(* what an invocation leaves in the server: HPOHandlers holds its          *)
(* HPOApiClient and HPOApiClient its axios instance, neither a field that  *)
(* an invocation writes                                                    *)
Returned ==
  /\ op' = "none"
  /\ args' = [id |-> Undefined]
  /\ pc' = "idle"
  /\ calls' = <<>>
  /\ resp' = <<>>
  /\ result' = EmptyResult

(* the invocation has returned; the server keeps nothing of it *)
Return ==
  /\ pc = "done"
  /\ Returned
  /\ UNCHANGED prev

Init ==
  /\ op = "none"
  /\ args = [id |-> Undefined]
  /\ pc = "idle"
  /\ calls = <<>>
  /\ resp = <<>>
  /\ result = EmptyResult
  /\ prev = NoPrev

Next ==
  \/ PathInvoke
  \/ PathAfterTerm
  \/ PathAfterAncestors
  \/ CompareInvoke
  \/ CompareAfterTerms
  \/ CompareAfterAncestors
  \/ StatsInvoke
  \/ StatsAfterAll
  \/ BatchInvoke
  \/ BatchAfterAll
  \/ getHPOAncestors
  \/ getHPOParents
  \/ getHPOChildren
  \/ getHPODescendants
  \/ HopAfter
  \/ getAllHPOTerms
  \/ AllTermsAfter
  \/ Respond
  \/ Return

Spec == Init /\ [][Next]_vars

(***************************************************************************)
(* An invocation and its repetition.  The first invocation runs as in      *)
(* Spec; when it has returned it is recorded in prev, and the same tool is *)
(* invoked again with the same arguments while the remote service answers  *)
(* every request as it answered it the first time.                         *)
(***************************************************************************)
(* two calls issue the same HTTP request *)
SameRequest(c, d) ==
  c.fn = d.fn /\ c.fid = d.fid /\ c.max = d.max /\ c.offset = d.offset

(* within the invocation the service gave one answer per request *)
Unchanging(cs, rs) ==
  ~ \E i, j \in 1..Len(cs) : SameRequest(cs[i], cs[j]) /\ rs[i] # rs[j]

(* the answers to call c of a service whose content is that of the         *)
(* recorded invocation                                                     *)
AnswersAsBefore(c) ==
  LET same == {j \in 1..Len(prev.calls) : SameRequest(prev.calls[j], c)}
  IN IF same = {} THEN Responses(op, c)
     ELSE {prev.resp[j] : j \in same}

AnyInvoke ==
  \/ PathInvoke
  \/ CompareInvoke
  \/ StatsInvoke
  \/ BatchInvoke
  \/ getHPOAncestors
  \/ getHPOParents
  \/ getHPOChildren
  \/ getHPODescendants
  \/ getAllHPOTerms

FirstInvoke ==
  /\ prev = NoPrev
  /\ AnyInvoke

FirstRespond ==
  /\ prev = NoPrev
  /\ Respond

ReturnRecorded ==
  /\ pc = "done" /\ prev = NoPrev
  /\ Unchanging(calls, resp)
  /\ prev' = [kind |-> "ran", op |-> op, args |-> args, calls |-> calls,
              resp |-> resp, result |-> result]
  /\ Returned

RepeatInvoke ==
  /\ prev # NoPrev
  /\ \/ prev.op = "path" /\ PathInvoke
     \/ prev.op = "compare" /\ CompareInvoke
     \/ prev.op = "stats" /\ StatsInvoke
     \/ prev.op = "batch" /\ BatchInvoke
     \/ prev.op \in HopOps /\ HopInvoke(prev.op)
     \/ prev.op = "getAllHPOTerms" /\ getAllHPOTerms
  /\ args' = prev.args

RespondAsBefore ==
  /\ prev # NoPrev
  /\ pc \notin {"idle", "done"}
  /\ \E i \in 1..Len(calls) :
       /\ resp[i] = Pending
       /\ \E r \in AnswersAsBefore(calls[i]) : resp' = [resp EXCEPT ![i] = r]
  /\ UNCHANGED <<op, args, pc, calls, result, prev>>

RepeatNext ==
  \/ FirstInvoke
  \/ FirstRespond
  \/ ReturnRecorded
  \/ RepeatInvoke
  \/ RespondAsBefore
  \/ PathAfterTerm
  \/ PathAfterAncestors
  \/ CompareAfterTerms
  \/ CompareAfterAncestors
  \/ StatsAfterAll
  \/ BatchAfterAll
  \/ HopAfter
  \/ AllTermsAfter

RepeatSpec == Init /\ [][RepeatNext]_vars

(***************************************************************************)
(* formatHPOId on its own: applied to a string, and applied again to what   *)
(* it returned.                                                             *)
(***************************************************************************)
DigitStrings == UNION {[1..n -> {"0", "7"}] : n \in 0..MaxDigits}

FormatInputs ==
  {p \o d \o t : p \in {<<>>, HPPrefix, <<"H", "P">>, <<"x">>},
                 d \in DigitStrings,
                 t \in {<<>>, <<"x">>}}

FormatInit ==
  /\ op = "formatHPOId"
  /\ args \in {[id |-> StrArg(x)] : x \in FormatInputs}
  /\ pc = "idle"
  /\ calls = <<>>
  /\ resp = <<>>
  /\ result = EmptyResult
  /\ prev = NoPrev

FormatApply ==
  /\ op = "formatHPOId" /\ pc = "idle"
  /\ result' = [kind |-> "formatted", value |-> formatHPOId(args.id.val), of |-> args.id.val]
  /\ pc' = "once"
  /\ UNCHANGED <<op, args, calls, resp>>
  /\ UNCHANGED prev

FormatAgain ==
  /\ op = "formatHPOId" /\ pc = "once"
  /\ result' = [kind |-> "formatted", value |-> formatHPOId(result.value), of |-> result.value]
  /\ pc' = "twice"
  /\ UNCHANGED <<op, args, calls, resp>>
  /\ UNCHANGED prev

FormatNext ==
  \/ FormatApply
  \/ FormatAgain

FormatSpec == FormatInit /\ [][FormatNext]_vars

(***************************************************************************)
(* Properties.                                                             *)
(***************************************************************************)
Failed(r) == r.error \in ErrorMsgs

Succeeded(r) == r.error = NoError

CompareDone == op = "compare" /\ pc = "done" /\ Len(calls) = 4

PathDone == op = "path" /\ pc = "done"

StatsDone == op = "stats" /\ pc = "done" /\ Len(calls) = 5

(* the closure a response carries, a failed fetch counting as empty *)
ClosureOf(r) == IF r.error = NoError /\ r.hasData THEN r.data ELSE <<>>

(* C1: compareHPOTerms classifies the pair by first match: B's id in A's   *)
(* ancestors, else A's id in B's ancestors, else a common ancestor, else   *)
(* unrelated, the ids being the terms' canonical ids.                      *)
C1_VerdictPrecedence ==
  CompareDone =>
    LET A == calls[1].fid
        B == calls[2].fid
        anc1 == Range(ClosureOf(resp[3]))
        anc2 == Range(ClosureOf(resp[4]))
    IN result.relationship =
         IF B \in anc1 THEN "term1 is a descendant of term2"
         ELSE IF A \in anc2 THEN "term2 is a descendant of term1"
         ELSE IF anc1 \cap anc2 # {} THEN "Related through common ancestors"
         ELSE "No direct relationship"

RECURSIVE MembersInOrder(_, _)
MembersInOrder(s, S) ==
  IF s = <<>> THEN <<>>
  ELSE (IF Head(s) \in S THEN <<Head(s)>> ELSE <<>>) \o MembersInOrder(Tail(s), S)

(* C2: the common ancestors are exactly the elements of term2's ancestor   *)
(* sequence that occur among term1's ancestors, in term2's order; the      *)
(* count reported is that of the full sequence and at most the first 10    *)
(* are listed.                                                             *)
C2_CommonAncestorsFollowSecond ==
  CompareDone =>
    LET expected == MembersInOrder(ClosureOf(resp[4]), Range(ClosureOf(resp[3])))
        n == Len(expected)
    IN /\ result.commonCount = n
       /\ Len(result.commonShown) = (IF n > DisplayCap THEN DisplayCap ELSE n)
       /\ \A i \in 1..Len(result.commonShown) : result.commonShown[i] = expected[i]
       /\ result.commonMore = (IF n > DisplayCap THEN n - DisplayCap ELSE 0)
       /\ (n > 0 => result.relationship # "No direct relationship")

C2_Witness ==
  /\ CompareDone
  /\ result.commonCount > DisplayCap
  /\ resp[3].data # resp[4].data

C2_WitnessShort ==
  /\ CompareDone
  /\ result.commonCount = 2
  /\ Len(resp[3].data) = 3
  /\ resp[3].data[2] = resp[4].data[2]
  /\ resp[3].data[3] = resp[4].data[1]

(* C3: the verdict for a term supplied in short digit form is the verdict  *)
(* for the same term supplied in canonical form, the remote answers being  *)
(* the same.                                                               *)
C3_VerdictOfCanonicalForm ==
  CompareDone =>
    result.relationship =
      Relationship(formatHPOId(args.term1.val), formatHPOId(args.term2.val),
                   ClosureOf(resp[3]), ClosureOf(resp[4]))

(* C4: for ancestors returned nearest-first as [Pn, ..., P1] the path is   *)
(* [P1, ..., Pn, T] with depth n, and with n = 0 it is the successful      *)
(* one-element path [T] of depth 0.                                        *)
C4_PathRootFirst ==
  (PathDone /\ Len(calls) = 2 /\ Succeeded(resp[2]) /\ resp[1].hasData) =>
    LET anc == resp[2].data
        n == Len(anc)
    IN /\ result.kind = "path"
       /\ result.isError = FALSE
       /\ Len(result.path) = n + 1
       /\ \A i \in 1..n : result.path[i] = anc[n + 1 - i]
       /\ result.path[n + 1] = calls[1].fid
       /\ result.depth = n

C4_Witness ==
  /\ PathDone
  /\ result.kind = "path"
  /\ result.depth = 3

C4_WitnessRoot ==
  /\ PathDone
  /\ result.kind = "path"
  /\ result.depth = 0
  /\ result.path = <<calls[1].fid>>

(* C5: a path built from an ancestor closure that the window truncated is  *)
(* never reported identically to the path of a complete closure.           *)
C5_TruncationObservable ==
  (PathDone /\ Len(calls) = 2 /\ result.kind = "path" /\ resp[2].more) =>
    result # TermPathResult(args.id.val, resp[1], [resp[2] EXCEPT !.more = FALSE])

(* C6: getHPOTermPath issues the term fetch first; when it fails the       *)
(* result is an error carrying that failure and no ancestor fetch is       *)
(* issued.                                                                 *)
C6_PathFailsFast ==
  (op = "path" /\ Len(calls) >= 1) =>
    /\ calls[1].fn = "getTerm"
    /\ \A i \in 2..Len(calls) : calls[i].fn = "getAncestors" /\ Succeeded(resp[1])
    /\ Failed(resp[1]) => Len(calls) = 1
    /\ (Failed(resp[1]) /\ pc = "done") =>
         /\ result.kind = "termError"
         /\ result.isError = TRUE
         /\ result.error = resp[1].error

C6_Witness ==
  /\ PathDone
  /\ Len(calls) = 1
  /\ resp[1].error = "E1"
  /\ result.isError = TRUE

(* C7: when both term fetches of compareHPOTerms fail, the result reports  *)
(* both errors; when one fails, it reports that one.                       *)
C7_BothErrorsReported ==
  (op = "compare" /\ pc = "done" /\ Len(calls) = 2) =>
    \A i \in 1..2 : Failed(resp[i]) =>
       result.kind = "termsError" /\ resp[i].error \in {result.error}

(* C8: whenever the term fetch of getHPOTermStats fails the result is an   *)
(* error without statistics, whatever the four hierarchy fetches returned. *)
C8_StatsTermLoadBearing ==
  (StatsDone /\ Failed(resp[1])) =>
    /\ result.kind = "termError"
    /\ result.isError = TRUE
    /\ result.error = resp[1].error

C8_Witness ==
  /\ StatsDone
  /\ Failed(resp[1])
  /\ \A i \in 2..5 : Succeeded(resp[i]) /\ Len(resp[i].data) > 0
  /\ result.isError = TRUE

(* C9: when the term fetch succeeds, every hierarchy fetch that succeeded  *)
(* is counted by the length of its sequence and every failed one as 0, in  *)
(* a success result.                                                       *)
C9_StatsCountsIndependent ==
  (StatsDone /\ Succeeded(resp[1]) /\ resp[1].hasData) =>
    LET Count(i) == IF Failed(resp[i]) THEN 0 ELSE Len(resp[i].data)
    IN /\ result.kind = "stats"
       /\ result.isError = FALSE
       /\ result.ancestors = Count(2)
       /\ result.descendants = Count(3)
       /\ result.parents = Count(4)
       /\ result.children = Count(5)

C9_Witness ==
  /\ StatsDone
  /\ result.kind = "stats"
  /\ Failed(resp[3])
  /\ \A i \in {2, 4, 5} : Succeeded(resp[i]) /\ Len(resp[i].data) > 0
  /\ result.descendants = 0
  /\ result.ancestors > 0

(* C10: when some but not all hierarchy fetches of getHPOTermStats fail,   *)
(* the result differs from the one in which the failed fetches succeeded   *)
(* with zero items.                                                        *)
C10_PartialFailureMarked ==
  (StatsDone /\ result.kind = "stats"
     /\ (\E i \in 2..5 : Failed(resp[i])) /\ (\E i \in 2..5 : Succeeded(resp[i]))) =>
    LET AsEmpty(r) == IF Failed(r) THEN OkList(<<>>, FALSE) ELSE r
    IN result # StatsResult(args.id.val, resp[1], AsEmpty(resp[2]), AsEmpty(resp[3]),
                            AsEmpty(resp[4]), AsEmpty(resp[5]))

(* C11: in every successful getHPOTermStats result the depth from root is   *)
(* the ancestor count: the length of the ancestor list fetched, 0 when the  *)
(* ancestor fetch failed or returned nothing.                               *)
C11_DepthIsAncestorCount ==
  (StatsDone /\ result.kind = "stats") =>
    /\ result.depth = result.ancestors
    /\ result.depth = (IF Failed(resp[2]) THEN 0 ELSE Len(resp[2].data))

C11_Witness ==
  /\ StatsDone
  /\ result.kind = "stats"
  /\ result.depth = 2
  /\ result.parents = 2

BatchDone == op = "batch" /\ pc = "done" /\ result.kind = "batch"

(* C12: batchGetHPOTerms calls the accessor only for a list of 1 to 20      *)
(* entries; an empty list gives the non-error "No IDs provided" result and  *)
(* a list of more than 20 the cap message, both without any call.           *)
C12_BatchCapBeforeDispatch ==
  op = "batch" =>
    /\ Len(calls) > 0 =>
         args.ids.type = "array" /\ Len(args.ids.items) \in 1..BatchCap
    /\ (pc = "done" /\ args.ids.type = "array" /\ Len(args.ids.items) = 0) =>
         result.kind = "noIds" /\ result.isError = FALSE /\ calls = <<>>
    /\ (pc = "done" /\ args.ids.type = "array" /\ Len(args.ids.items) > BatchCap) =>
         result.kind = "capExceeded" /\ calls = <<>>
    /\ (pc = "done" /\ args.ids.type = "array" /\ Len(args.ids.items) \in 1..BatchCap) =>
         result.kind = "batch" /\ Len(calls) > 0

C12_Witness ==
  /\ op = "batch" /\ pc = "done"
  /\ args.ids.type = "array"
  /\ Len(args.ids.items) = BatchCap + 1
  /\ result.kind = "capExceeded"

C12_WitnessAtCap ==
  /\ BatchDone
  /\ Len(args.ids.items) = BatchCap
  /\ result.total = BatchCap

(* C13: every entry of the input is reported in exactly one partition,      *)
(* among the successes with its term when its own fetch did not fail and    *)
(* among the failures with its own error otherwise, whatever the other      *)
(* fetches returned.                                                        *)
C13_BatchOutcomesIndependent ==
  BatchDone =>
    LET ids == args.ids.items
        okIdx == {i \in 1..Len(ids) : resp[i].error = NoError}
    IN /\ Len(result.successful) + Len(result.failed) = Len(ids)
       /\ Len(result.successful) = Cardinality(okIdx)
       /\ \A i \in 1..Len(ids) :
            IF i \in okIdx
            THEN \E k \in 1..Len(result.successful) :
                   result.successful[k] = [id |-> ids[i], term |-> resp[i].data]
            ELSE \E k \in 1..Len(result.failed) :
                   result.failed[k] = [id |-> ids[i], error |-> resp[i].error]

C13_Witness ==
  /\ BatchDone
  /\ Len(args.ids.items) = 2
  /\ args.ids.items[1] = args.ids.items[2]
  /\ resp[1].error = "E1"
  /\ resp[2].error = NoError /\ resp[2].hasData
  /\ Len(result.successful) = 1 /\ Len(result.failed) = 1

(* C14: the successes and the failures each list their entries in the       *)
(* order of the input: the k-th success is the k-th input entry whose fetch *)
(* did not fail, the k-th failure the k-th entry whose fetch failed.        *)
C14_BatchPartitionsKeepInputOrder ==
  BatchDone =>
    LET ids == args.ids.items
        ok(i) == resp[i].error = NoError
        rankOk(i) == Cardinality({j \in 1..i : ok(j)})
        rankBad(i) == Cardinality({j \in 1..i : ~ok(j)})
    IN \A i \in 1..Len(ids) :
         IF ok(i)
         THEN rankOk(i) <= Len(result.successful)
              /\ result.successful[rankOk(i)].id = ids[i]
         ELSE rankBad(i) <= Len(result.failed)
              /\ result.failed[rankBad(i)].id = ids[i]

C14_Witness ==
  /\ BatchDone
  /\ Len(args.ids.items) = 3
  /\ args.ids.items[1] # args.ids.items[3]
  /\ resp[1].error = NoError /\ resp[2].error = "E1" /\ resp[3].error = NoError
  /\ Len(result.successful) = 2
  /\ result.successful[1].id = args.ids.items[1]
  /\ result.successful[2].id = args.ids.items[3]
  /\ Len(result.failed) = 1
  /\ result.failed[1].id = args.ids.items[2]

(* whether a required argument of the running operation is absent, empty    *)
(* or not of its type (a string; for batch, an array)                       *)
NotAString(a) == a.type # "string" \/ Len(a.val) = 0

RequiredArgInvalid ==
  CASE op \in {"path", "stats"} \cup HopOps -> NotAString(args.id)
    [] op = "compare" -> NotAString(args.term1) \/ NotAString(args.term2)
    [] op = "batch" -> args.ids.type # "array"
    [] OTHER -> FALSE

C15_WitnessBatch ==
  /\ op = "batch" /\ pc = "done"
  /\ args.ids.type = "string"
  /\ result.kind = "McpError"
  /\ calls = <<>>

FnsOf(cs) == [i \in 1..Len(cs) |-> cs[i].fn]

IsPrefix(s, t) == Len(s) <= Len(t) /\ s = SubSeq(t, 1, Len(s))

(* C16: no fetch is repeated.  getHPOTermPath makes at most the two calls   *)
(* term, ancestors; compareHPOTerms at most two term and two ancestor       *)
(* calls; getHPOTermStats exactly its five calls; batchGetHPOTerms exactly  *)
(* one getTerm call per input entry, duplicates included.                   *)
C16_EachFetchOnce ==
  /\ op = "path" => IsPrefix(FnsOf(calls), <<"getTerm", "getAncestors">>)
  /\ op = "compare" =>
       IsPrefix(FnsOf(calls), <<"getTerm", "getTerm", "getAncestors", "getAncestors">>)
  /\ (op = "stats" /\ ~RequiredArgInvalid) =>
       FnsOf(calls) = <<"getTerm", "getAncestors", "getDescendants", "getParents", "getChildren">>
  /\ (op = "batch" /\ args.ids.type = "array" /\ Len(args.ids.items) \in 1..BatchCap) =>
       /\ Len(calls) = Len(args.ids.items)
       /\ \A i \in 1..Len(calls) :
            /\ calls[i].fn = "getTerm"
            /\ args.ids.items[i].type = "string" => calls[i].id = args.ids.items[i].val
  /\ op \in HopOps => Len(calls) <= 1

C16_Witness ==
  /\ BatchDone
  /\ Len(args.ids.items) = 3
  /\ args.ids.items[1] = args.ids.items[2]
  /\ args.ids.items[2] = args.ids.items[3]
  /\ args.ids.items[1].type = "string"
  /\ \A i \in 1..3 : resp[i].error = "E1"
  /\ Len(calls) = 3
  /\ Len(result.failed) = 3

HopDone == op \in HopOps /\ pc = "done" /\ Len(calls) = 1

(* C19: the window passed to the accessor has max = 20 (parents, children)  *)
(* or 50 (ancestors, descendants) when the caller omits max, offset = 0     *)
(* when the caller omits offset, and a max never above the advertised       *)
(* maximum of the operation (200 for ancestors, 100 for the others).        *)
C19_WindowDefaultsAndCaps ==
  (op \in HopOps /\ Len(calls) = 1) =>
    /\ args.max.type = "undefined" =>
         calls[1].max = (IF op \in {"getHPOParents", "getHPOChildren"} THEN 20 ELSE 50)
    /\ args.offset.type = "undefined" => calls[1].offset = 0
    /\ calls[1].max <= AdvertisedMax(op)

(* C20: the result of a single-hop or closure handler is marked as an error *)
(* exactly when the accessor call failed; a successful fetch of zero items  *)
(* gives the non-error "none found" result.                                 *)
C20_EmptyIsNotFailure ==
  HopDone =>
    /\ (result.isError = TRUE) <=> Failed(resp[1])
    /\ Failed(resp[1]) => result.kind = "hopError" /\ result.error = resp[1].error
    /\ (Succeeded(resp[1]) /\ Len(resp[1].data) = 0) =>
         result.kind = "noneFound" /\ result.isError = FALSE
    /\ (Succeeded(resp[1]) /\ Len(resp[1].data) > 0) =>
         result.kind = "list" /\ result.items = resp[1].data

C20_Witness ==
  /\ HopDone
  /\ op = "getHPOParents"
  /\ Succeeded(resp[1]) /\ resp[1].hasData /\ Len(resp[1].data) = 0
  /\ result.kind = "noneFound"
  /\ result.isError = FALSE

(* /^HP:\d{7}$/ *)
MatchesHPSevenDigits(x) ==
  /\ Len(x) = 10
  /\ x[1] = "H" /\ x[2] = "P" /\ x[3] = ":"
  /\ \A i \in 4..10 : x[i] \in Digit

OnlyDigits(x) == Len(x) > 0 /\ \A i \in 1..Len(x) : x[i] \in Digit

RECURSIVE LeftPadded(_, _)
LeftPadded(x, w) == IF Len(x) < w THEN LeftPadded(<<"0">> \o x, w) ELSE x

(* C17: formatHPOId returns an input matching HP:\d{7} unchanged, an        *)
(* all-digit input as HP: followed by the input left-padded with zeros to   *)
(* 7 digits, and any other input unchanged.                                 *)
C17_FormatCases ==
  (op = "formatHPOId" /\ pc = "once") =>
    LET x == args.id.val
    IN /\ result.value =
            (IF MatchesHPSevenDigits(x) THEN x
             ELSE IF OnlyDigits(x) THEN <<"H", "P", ":">> \o LeftPadded(x, 7)
             ELSE x)
       /\ (OnlyDigits(x) /\ Len(x) = 7) => result.value = <<"H", "P", ":">> \o x

C17_Witness ==
  /\ op = "formatHPOId" /\ pc = "once"
  /\ args.id.val = <<"7", "0">>
  /\ result.value = <<"H", "P", ":", "0", "0", "0", "0", "0", "7", "0">>

(* C18: formatHPOId applied to its own result returns that result, for      *)
(* canonical ids and for every other string.                                *)
C18_FormatIdempotent ==
  (op = "formatHPOId" /\ pc = "twice") => result.value = result.of

C18_Witness ==
  /\ op = "formatHPOId" /\ pc = "twice"
  /\ args.id.val = <<"x", "7">>
  /\ result.value = <<"x", "7">>

C18_WitnessDigits ==
  /\ op = "formatHPOId" /\ pc = "twice"
  /\ args.id.val = <<"7">>
  /\ result.value = <<"H", "P", ":", "0", "0", "0", "0", "0", "0", "7">>

C21_WitnessBatch ==
  /\ prev # NoPrev /\ pc = "done"
  /\ op = "batch" /\ result.kind = "batch"
  /\ result.retrieved >= 1 /\ Len(result.failed) >= 1

C21_WitnessStats ==
  /\ prev # NoPrev /\ pc = "done"
  /\ op = "stats" /\ result.kind = "stats"
  /\ result.ancestors >= 1 /\ result.children >= 1

(* C22: compareHPOTerms, getHPOTermStats and batchGetHPOTerms produce no   *)
(* result while a fetch they launched is outstanding, and a failed fetch   *)
(* leaves its siblings launched and awaited: getHPOTermStats issues its    *)
(* five fetches together and batchGetHPOTerms one fetch per entry.         *)
C22_AllCompleteBarrier ==
  (op \in {"compare", "stats", "batch"}) =>
    /\ (result.kind # "none") => \A i \in 1..Len(calls) : resp[i].error # "pending"
    /\ (op = "stats" /\ calls # <<>>) =>
          /\ Len(calls) = 5
          /\ <<calls[1].fn, calls[2].fn, calls[3].fn, calls[4].fn, calls[5].fn>>
               = <<"getTerm", "getAncestors", "getDescendants", "getParents", "getChildren">>
    /\ (op = "batch" /\ calls # <<>>) => Len(calls) = Len(args.ids.items)
    /\ (op = "compare" /\ calls # <<>>) => Len(calls) \in {2, 4}

C22_Witness ==
  /\ op = "stats" /\ pc = "done" /\ Len(calls) = 5
  /\ Failed(resp[1])
  /\ \A i \in 2..5 : Succeeded(resp[i]) /\ Len(resp[i].data) > 0
  /\ result.kind = "termError"

C22_WitnessBatch ==
  /\ op = "batch" /\ pc = "done" /\ Len(calls) = 3
  /\ Failed(resp[1]) /\ Succeeded(resp[2]) /\ Succeeded(resp[3])
  /\ result.kind = "batch"

(* C23: compareHPOTerms issues its two ancestor fetches, each with max 200  *)
(* and offset 0 as getHPOTermPath does, only when both term fetches have    *)
(* completed without error and with term data, and otherwise returns with   *)
(* the two term fetches alone.                                              *)
C23_AncestorsAfterBothTerms ==
  /\ (op = "compare" /\ Len(calls) > 2) =>
        /\ Len(calls) = 4
        /\ \A i \in {1, 2} : resp[i].error = "" /\ resp[i].hasData
        /\ calls[3].fn = "getAncestors" /\ calls[3].id = args.term1.val
        /\ calls[4].fn = "getAncestors" /\ calls[4].id = args.term2.val
        /\ \A i \in {3, 4} : calls[i].max = 200 /\ calls[i].offset = 0
  /\ (op = "compare" /\ pc = "done" /\ Len(calls) = 2) =>
        \E i \in {1, 2} : Failed(resp[i]) \/ ~resp[i].hasData
  /\ (op = "path" /\ Len(calls) = 2) =>
        calls[2].fn = "getAncestors" /\ calls[2].max = 200 /\ calls[2].offset = 0

C23_Witness ==
  /\ op = "compare" /\ pc = "awaitAncestors" /\ Len(calls) = 4
  /\ resp[3].error = "pending" /\ resp[4].error = "pending"

C23_WitnessNotIssued ==
  /\ op = "compare" /\ pc = "done" /\ Len(calls) = 2
  /\ Succeeded(resp[1]) /\ resp[1].hasData
  /\ Succeeded(resp[2]) /\ ~resp[2].hasData

(* C24: when an ancestor fetch of compareHPOTerms fails after both term     *)
(* fetches succeeded, the comparison is still returned, and it differs from *)
(* the comparison in which that fetch succeeded with an empty closure.      *)
C24_ClosureFailureRecorded ==
  (op = "compare" /\ pc = "done" /\ Len(calls) = 4
     /\ (\E i \in {3, 4} : Failed(resp[i]))) =>
    LET AsEmpty(r) == IF Failed(r) THEN OkList(<<>>, FALSE) ELSE r
    IN /\ result.kind = "compare"
       /\ result # CompareResult(args.term1.val, args.term2.val, resp[1], resp[2],
                                 AsEmpty(resp[3]), AsEmpty(resp[4]))

(* C25: every window that getHPOAncestors, getHPOParents, getHPOChildren,   *)
(* getHPODescendants and getAllHPOTerms pass to the accessor has max > 0    *)
(* and offset >= 0, whatever max and offset the caller supplied.            *)
C25_WindowWellFormed ==
  (op \in {"getHPOAncestors", "getHPOParents", "getHPOChildren", "getHPODescendants",
           "getAllHPOTerms"}) =>
    \A i \in 1..Len(calls) : calls[i].max > 0 /\ calls[i].offset >= 0

====
